---- MODULE Spec2Model ----
(***************************************************************************)
(* Model of the object package (object.go) and of the random key generator *)
(* it uses (random/random.go).  The package is a library of synchronous    *)
(* operations (Store, Retrieve, List, Delete, Reap) over an S3 bucket and  *)
(* an optional Cloudflare zone.  The model runs one library operation at a *)
(* time, split into one action per request it sends, and lets the clock    *)
(* advance and other parties upload to or delete from the bucket between   *)
(* any two steps.                                                          *)
(***************************************************************************)
EXTENDS Integers, Sequences, FiniteSets, TLC

(***************************************************************************)
(* Bounds of the model.                                                    *)
(***************************************************************************)
\* number of symbols of OBJECT_KEY_BASE the model keeps
KeyBaseLen == 3
\* the clock runs from 0 to MaxClock
MaxClock == 2
\* S3_LIST_OBJECTS_MAX_KEYS ranges over 1..MaxPageSize
MaxPageSize == 2
\* names handed to Store have at most MaxNameLen characters
MaxNameLen == 4

(***************************************************************************)
(* Configuration (object.go, lines 32-54), scaled to the bounds.           *)
(***************************************************************************)
\* the first symbols of the default key alphabet, in their (ascending) order
FullBase == <<"1", "2", "3", "4", "5", "6", "7", "8", "9">>
OBJECT_KEY_BASE == SubSeq(FullBase, 1, KeyBaseLen)
OBJECT_KEY_LENGTH == 1
\* in clock ticks
OBJECT_KEY_DELAY_MAX == 1
OBJECT_TIME_TO_LIVE == 1
OBJECT_NAME_LENGTH_MIN == 1
OBJECT_NAME_LENGTH_MAX == 255
\* An int64 number of bytes is the pair of its quotient and its remainder by
\* 10^9 (the remainder from 0 to 10^9 - 1): Bytes(g, r) is g * 10^9 + r.
Giga == 1000000000
Bytes(g, r) == [giga |-> g, rest |-> r]
\* a < b for two numbers of bytes
SizeLess(a, b) == a.giga < b.giga \/ (a.giga = b.giga /\ a.rest < b.rest)
OBJECT_SIZE_MIN == Bytes(0, 0)
\* 5*1000000000
OBJECT_SIZE_MAX == Bytes(5, 0)

errObjectKeyInvalid == "object key invalid"
errObjectNameInvalid == "object name invalid"
errObjectSizeInvalid == "object size invalid"
errObjectKeyGenerationTookMaxDelay == "object key generation took max delay"

\* a nil error / a nil pointer
Nil == "nil"
\* no key (the zero value of a string that no request carries)
NoKey == <<>>

(***************************************************************************)
(* Strings are sequences of one-character strings.                         *)
(***************************************************************************)
Min(a, b) == IF a < b THEN a ELSE b

BaseChars == {OBJECT_KEY_BASE[i] : i \in 1..Len(OBJECT_KEY_BASE)}

\* the strings of exactly len characters over the set chars
StringsOfLen(chars, len) == [1..len -> chars]

\* the strings of at most len characters over the set chars
StringsUpTo(chars, len) == UNION {StringsOfLen(chars, l) : l \in 0..len}

\* the byte order of the key alphabet (the default alphabet is ascending)
CharIndex(c) == CHOOSE i \in 1..Len(FullBase) : FullBase[i] = c

\* a < b in the byte-wise lexicographic order S3 lists keys in
RECURSIVE KeyLess(_, _)
KeyLess(a, b) ==
    IF a = <<>> THEN b # <<>>
    ELSE IF b = <<>> THEN FALSE
    ELSE IF a[1] = b[1] THEN KeyLess(Tail(a), Tail(b))
    ELSE CharIndex(a[1]) < CharIndex(b[1])

(***************************************************************************)
(* random.StringGenerator.Generate: the strings it can return, one per     *)
(* sequence of random draws.                                               *)
(***************************************************************************)
Generate(length) == StringsOfLen(BaseChars, length)

\* the keys Store can allocate
Keys == Generate(OBJECT_KEY_LENGTH)

(***************************************************************************)
(* random.NewStringGenerator (random.go, lines 19-35).                     *)
(***************************************************************************)
\* the number of bits of a value rand.Source.Int63 returns
Int63Bits == 63

\* math.Pow(2, y) for a whole y >= 0
RECURSIVE Pow2(_)
Pow2(y) == IF y = 0 THEN 1 ELSE 2 * Pow2(y - 1)

\* lines 20-24: the loop that counts y up from 1 while 2^y < len(base)
RECURSIVE IndexBits(_, _)
IndexBits(y, baseLength) ==
    IF Pow2(y) < baseLength THEN IndexBits(y + 1, baseLength) ELSE y

\* lines 27-34
NewStringGenerator(base) ==
    LET bits == IndexBits(1, Len(base))
    IN  [base |-> base,
         baseLength |-> Len(base),
         indexBits |-> bits,
         indexMask |-> Pow2(bits) - 1,
         indexMax |-> Int63Bits \div bits]

(***************************************************************************)
(* objectValidate, per argument (a nil argument is not validated).         *)
(***************************************************************************)
\* the characters url.QueryEscape leaves as they are, among those of the model
Unreserved == {"a", "0", "2", "5", "B"}

\* the two upper-case hex digits of the byte of a character QueryEscape escapes
HexOf(c) ==
    CASE c = "+" -> <<"2", "B">>
      [] c = "%" -> <<"2", "5">>
      [] c = "\"" -> <<"2", "2">>
      [] c = " " -> <<"2", "0">>

\* url.QueryEscape: the replacement of one character
EscapeChar(c) ==
    IF c \in Unreserved THEN <<c>>
    ELSE IF c = " " THEN <<"+">>
    ELSE <<"%">> \o HexOf(c)

RECURSIVE QueryEscape(_)
QueryEscape(s) ==
    IF s = <<>> THEN <<>> ELSE EscapeChar(s[1]) \o QueryEscape(Tail(s))

\* strings.ReplaceAll(s, old, new) for a one-character old
RECURSIVE ReplaceAll(_, _, _)
ReplaceAll(s, old, new) ==
    IF s = <<>> THEN <<>>
    ELSE (IF s[1] = old THEN new ELSE <<s[1]>>) \o ReplaceAll(Tail(s), old, new)

\* the bug of leaving out the replacement of line 267
EscapeName_NoReplace(name) == QueryEscape(name)

\* the bug of replacing before escaping
EscapeName_ReplaceFirst(name) ==
    QueryEscape(ReplaceAll(name, "+", <<"%", "2", "0">>))

\* lines 266-267: the name as objectValidate rewrites it
EscapeName(name) == ReplaceAll(QueryEscape(name), "+", <<"%", "2", "0">>)

\* lines 265-271
objectValidateName(name) ==
    IF Len(EscapeName(name)) < OBJECT_NAME_LENGTH_MIN
       \/ OBJECT_NAME_LENGTH_MAX < Len(EscapeName(name))
    THEN errObjectNameInvalid
    ELSE Nil

\* the bug of rejecting the greatest size allowed
objectValidateSize_MaxExcluded(sz) ==
    IF SizeLess(sz, OBJECT_SIZE_MIN) \/ ~SizeLess(sz, OBJECT_SIZE_MAX)
    THEN errObjectSizeInvalid
    ELSE Nil

\* lines 273-277
objectValidateSize(sz) ==
    IF SizeLess(sz, OBJECT_SIZE_MIN) \/ SizeLess(OBJECT_SIZE_MAX, sz)
    THEN errObjectSizeInvalid
    ELSE Nil

\* the bug of rejecting the keys of the greatest length allowed
objectValidateKey_UpperExcluded(k) ==
    IF Len(k) < OBJECT_KEY_LENGTH \/ OBJECT_KEY_LENGTH * 2 =< Len(k)
    THEN errObjectKeyInvalid
    ELSE IF \E i \in 1..Len(k) : k[i] \notin BaseChars
    THEN errObjectKeyInvalid
    ELSE Nil

\* lines 254-263
objectValidateKey(k) ==
    IF Len(k) < OBJECT_KEY_LENGTH \/ OBJECT_KEY_LENGTH * 2 < Len(k)
    THEN errObjectKeyInvalid
    ELSE IF \E i \in 1..Len(k) : k[i] \notin BaseChars
    THEN errObjectKeyInvalid
    ELSE Nil

(***************************************************************************)
(* The bucket, as the S3 requests of the package see it.                   *)
(***************************************************************************)
\* the errors a request can fail with whatever the bucket holds
\* (authorization, transport)
RequestErrors == {"Forbidden", "RequestError"}

\* HeadObject: the error values it can return (Nil: the object exists)
HeadObject(bkt, k) ==
    (IF k \in DOMAIN bkt THEN {Nil} ELSE {"NotFound"}) \cup RequestErrors

\* the bucket after a PUT of key k at time t
PutObject(bkt, k, t) ==
    [x \in DOMAIN bkt \cup {k} |-> IF x = k THEN t ELSE bkt[x]]

\* the bucket after a DELETE of key k
RemoveObject(bkt, k) == [x \in DOMAIN bkt \ {k} |-> bkt[x]]

(***************************************************************************)
(* State.                                                                  *)
(***************************************************************************)
VARIABLES
    bucket,       \* the S3 bucket: live key -> LastModified
    clock,        \* the wall clock
    maxKeys,      \* S3_LIST_OBJECTS_MAX_KEYS
    cfZone,       \* CLOUDFLARE_ZONE # ""
    cfCreds,      \* the credential shapes that are configured
    shortPages,   \* the store may return fewer keys than MaxKeys in a page
    cloudflareClient, \* the package variable: Nil or the shape it was built from
    pc,           \* where the running operation stands
    op,           \* the library operation that is running or has ended
    key,          \* Store: key; Retrieve: key; Delete: o.Key
    t_start,      \* objectGenerateUniqueKey: t_start
    err,          \* objectGenerateUniqueKey: err of the last HeadObject
    objects,      \* List: objects
    out,          \* List: out (Contents, IsTruncated)
    n,            \* Reap: n
    idx,          \* Reap: index into objects of the object being deleted
    now,          \* Reap: now
    head,         \* Retrieve: object.LastModified
    reqTime,      \* Retrieve: the time the GET request was created at
    ret,          \* what the operation returned
    changed,      \* another party changed the bucket during the operation
    sent,         \* the kinds of request the operation has sent so far
    probeErr,     \* Store: the first request error a probe returned
    overwrote,    \* Store: the caller's upload replaced a live object
    name,         \* Store: name, as the caller passed it
    size,         \* Store: size
    startAfter,   \* List: StartAfter of the last request
    s3Err,        \* Delete: the error DeleteObject returned
    perr,         \* Delete: the error purgeCache returned
    purgeSent,    \* Delete: purgeCache sent a purge request
    attempts,     \* Reap, Delete: the keys DeleteObject was requested for
    removed,      \* Delete: the object the last DeleteObject removed, if any
    delErr,       \* Reap: the error of the Delete that failed
    nmPc,         \* the name round trip: where it stands
    nmIn,         \* the name Store was called with
    nmHeader,     \* the Content-Disposition Store returned
    nmStored,     \* the Content-Disposition of the uploaded object
    nmOut,        \* what Retrieve returned: err and Name
    rsg,          \* the StringGenerator: base, baseLength, indexBits, ...
    genPc,        \* Generate: where it stands
    length,       \* Generate: length
    loopI,        \* Generate: i
    shifted,      \* Generate: how many times cache was shifted since its draw
    remain,       \* Generate: remain
    builder,      \* Generate: the bytes written to builder
    refilled      \* Generate: cache was drawn again (lines 42-45)

cfgVars == <<maxKeys, cfZone, cfCreds, shortPages>>
envVars == <<bucket, clock>>
listVars == <<objects, out, startAfter>>
reapVars == <<n, idx, now, delErr>>
delVars == <<s3Err, perr, purgeSent, attempts, removed>>
allocVars == <<t_start, err, probeErr, overwrote, name, size>>
retrVars == <<head, reqTime>>
nameVars == <<nmPc, nmIn, nmHeader, nmStored, nmOut>>
genVars == <<rsg, genPc, length, loopI, shifted, remain, builder, refilled>>
vars == <<bucket, clock, maxKeys, cfZone, cfCreds, shortPages,
          cloudflareClient, pc, op, key, t_start, err, objects, out, n, idx,
          now, head, reqTime, ret, changed, sent, probeErr, overwrote, name,
          size, startAfter, s3Err, perr, purgeSent, attempts, removed,
          delErr, nmPc, nmIn, nmHeader, nmStored, nmOut, rsg, genPc, length,
          loopI, shifted, remain, builder, refilled>>

\* the three credential shapes, in the order purgeCache looks at them
Shapes == <<"email", "token", "userServiceKey">>
ShapeSet == {Shapes[i] : i \in 1..Len(Shapes)}

\* the empty bucket
EmptyBucket == [x \in {} |-> 0]

\* what an operation returns: the error and the fields of the Object, the
\* slice or the count it returns with it
NoRet == [err |-> Nil, Key |-> NoKey, objects |-> <<>>, n |-> 0,
          ExpirationSeconds |-> 0, urlExpires |-> 0]

NoOut == [Contents |-> <<>>, IsTruncated |-> FALSE]

NoName == [err |-> Nil, Name |-> <<>>]

\* No operation is running.  pc is "idle" between operations, "done" at the
\* moment an operation returns, "uploaded" when the caller of Store has
\* uploaded to the URL it got, and "panic" when the operation has panicked.
Idle == pc = "idle"

\* the operation runs on: the environment takes its steps between the
\* operations and between the steps of one
Running == pc \notin {"done", "uploaded", "panic"}

\* the name round trip has not begun
NameOff ==
    /\ nmPc = "off" /\ nmIn = <<>> /\ nmHeader = <<>>
    /\ nmStored = <<>> /\ nmOut = NoName

\* Generate is not followed step by step: the generator is the package's
\* randomStringGenerator (object.go, line 68) and the locals of Generate are
\* as before a call
GenOff ==
    /\ rsg = NewStringGenerator(OBJECT_KEY_BASE)
    /\ genPc = "off" /\ length = 0 /\ loopI = 0 /\ shifted = 0 /\ remain = 0
    /\ builder = <<>> /\ refilled = FALSE

\* the locals of the operations, before any has run
FreshLocals ==
    /\ key = NoKey /\ t_start = 0 /\ err = Nil /\ probeErr = Nil
    /\ overwrote = FALSE /\ name = <<>> /\ size = Bytes(0, 0)
    /\ objects = <<>> /\ out = NoOut /\ startAfter = NoKey
    /\ n = 0 /\ idx = 0 /\ now = 0 /\ delErr = Nil
    /\ head = 0 /\ reqTime = 0
    /\ s3Err = Nil /\ perr = Nil /\ purgeSent = FALSE /\ attempts = <<>>
    /\ removed = <<>>

\* The package variables after initialisation: the configuration is read
\* from the environment, cloudflareClient is nil.  The bucket starts empty.
\* Credentials are read only when a zone is configured, so they are left
\* empty without one.
InitPackage ==
    /\ bucket = EmptyBucket
    /\ clock = 0
    /\ maxKeys \in 1..MaxPageSize
    /\ cfZone \in BOOLEAN
    /\ cfCreds \in (IF cfZone THEN SUBSET ShapeSet ELSE {{}})
    /\ shortPages \in BOOLEAN
    /\ cloudflareClient = Nil
    /\ pc = "idle" /\ op = "none"
    /\ FreshLocals
    /\ ret = NoRet
    /\ changed = FALSE
    /\ sent = {}

Init == InitPackage /\ NameOff /\ GenOff

(***************************************************************************)
(* The environment.                                                        *)
(***************************************************************************)
\* time passes
Tick ==
    /\ Running
    /\ clock < MaxClock
    /\ clock' = clock + 1
    /\ UNCHANGED <<bucket, cfgVars, cloudflareClient, pc, op, key, allocVars,
                   listVars, reapVars, delVars, retrVars, ret, changed, sent,
                   nameVars, genVars>>

\* a client uploads to a presigned PUT URL: the object (over)written at key
\* k gets the store's current time as LastModified
ExtUpload ==
    \E k \in Keys :
        /\ Running
        /\ bucket' = PutObject(bucket, k, clock)
        /\ changed' = ~Idle
        /\ UNCHANGED <<clock, cfgVars, cloudflareClient, pc, op, key,
                       allocVars, listVars, reapVars, delVars, retrVars, ret,
                       sent, nameVars, genVars>>

\* another party deletes an object
ExtDelete ==
    \E k \in DOMAIN bucket :
        /\ Running
        /\ bucket' = RemoveObject(bucket, k)
        /\ changed' = ~Idle
        /\ UNCHANGED <<clock, cfgVars, cloudflareClient, pc, op, key,
                       allocVars, listVars, reapVars, delVars, retrVars, ret,
                       sent, nameVars, genVars>>

\* the locals an operation does not use are as they were at the start
FreshAlloc ==
    /\ t_start' = 0 /\ err' = Nil /\ probeErr' = Nil /\ overwrote' = FALSE
    /\ name' = <<>> /\ size' = Bytes(0, 0)
FreshList == objects' = <<>> /\ out' = NoOut /\ startAfter' = NoKey
FreshReap == n' = 0 /\ idx' = 0 /\ now' = 0 /\ delErr' = Nil
FreshDel ==
    /\ s3Err' = Nil /\ perr' = Nil /\ purgeSent' = FALSE /\ attempts' = <<>>
    /\ removed' = <<>>
FreshRetr == head' = 0 /\ reqTime' = 0

\* an upload, a deletion by another party while no operation is running
UploadBetween == Idle /\ ExtUpload
DeleteBetween == Idle /\ ExtDelete

\* operation o begins
Begin(o) ==
    /\ Idle
    /\ op' = o
    /\ changed' = FALSE

\* the operation returns r
Return(r) ==
    /\ pc' = "done"
    /\ ret' = r

\* the caller has taken the result; the locals of the operation are gone
Forget ==
    /\ pc \in {"done", "uploaded"}
    /\ pc' = "idle"
    /\ op' = "none"
    /\ ret' = NoRet
    /\ changed' = FALSE
    /\ sent' = {}
    /\ key' = NoKey
    /\ FreshAlloc /\ FreshList /\ FreshReap /\ FreshDel /\ FreshRetr
    /\ UNCHANGED <<envVars, cfgVars, cloudflareClient, nameVars, genVars>>

(***************************************************************************)
(* Store (lines 71-108) and objectGenerateUniqueKey (lines 282-298).       *)
(***************************************************************************)
\* the names and sizes Store is called with
StoreNames == {<<>>, <<"a">>, <<"a", "+">>}
\* -5000000000, -1, 0, 5000000000, 5000000001 and 9000000000 bytes
StoreSizes == {Bytes(-5, 0), Bytes(-1, Giga - 1), Bytes(0, 0), Bytes(5, 0),
               Bytes(5, 1), Bytes(9, 0)}

\* lines 72-75: objectValidate(nil, &name, &size)
StoreValidate(nm, sz) ==
    IF objectValidateName(nm) # Nil THEN objectValidateName(nm)
    ELSE objectValidateSize(sz)

\* the bug of taking every failed probe for a free key
KeyIsFree_AnyError(e) == e # Nil

\* line 289: the loop ends when the code of err is "NotFound"
KeyIsFree(e) == e = "NotFound"

\* line 290: time.Since(t_start) > *maxDelay
TookMaxDelay(t0, t) == t - t0 > OBJECT_KEY_DELAY_MAX

\* the request error a probe returned first, if any
NoteProbeErr(first, e) == IF first = Nil /\ e \in RequestErrors THEN e ELSE first

\* the bug of probing with a copy of the first candidate
ProbedKey_Copied(old, new) == IF old = NoKey THEN new ELSE old

\* line 286: headObjectInput holds a pointer to key (Key: &key), so each
\* probe asks for the key just generated
ProbedKey(old, new) == new

\* lines 285-287 and 293-294: a candidate is generated and probed
Probe(first) ==
    \E k \in Generate(OBJECT_KEY_LENGTH) :
        /\ key' = k
        /\ sent' = sent \cup {"HeadObject"}
        /\ \E e \in HeadObject(bucket, ProbedKey(key, k)) :
               /\ err' = e
               /\ probeErr' = NoteProbeErr(first, e)

\* Store up to the first probe: lines 72-75, 283-287
StoreCall ==
    /\ Begin("Store")
    /\ \E nm \in StoreNames, sz \in StoreSizes :
        /\ name' = nm /\ size' = sz
        /\ overwrote' = FALSE
        /\ IF StoreValidate(nm, sz) # Nil
           THEN /\ Return([NoRet EXCEPT !.err = StoreValidate(nm, sz)])
                /\ key' = NoKey
                /\ t_start' = 0 /\ err' = Nil /\ probeErr' = Nil
                /\ UNCHANGED sent
           ELSE /\ t_start' = clock
                /\ Probe(Nil)
                /\ pc' = "alloc"
                /\ ret' = NoRet
    /\ FreshList /\ FreshReap /\ FreshDel /\ FreshRetr
    /\ UNCHANGED <<envVars, cfgVars, cloudflareClient, nameVars, genVars>>

\* One evaluation of the loop of lines 289-295.  The condition asserts that
\* err is an awserr.Error: on a nil err (the probe found the object) the
\* assertion panics.
AllocLoop ==
    /\ pc = "alloc"
    /\ IF err = Nil
       THEN /\ pc' = "panic"
            /\ UNCHANGED <<key, err, probeErr, ret, sent>>
       ELSE IF KeyIsFree(err)
       THEN /\ pc' = "presign"
            /\ UNCHANGED <<key, err, probeErr, ret, sent>>
       ELSE IF TookMaxDelay(t_start, clock)
       THEN /\ Return([NoRet EXCEPT !.err = errObjectKeyGenerationTookMaxDelay])
            /\ UNCHANGED <<key, err, probeErr, sent>>
       ELSE /\ Probe(probeErr)
            /\ UNCHANGED <<pc, ret>>
    /\ UNCHANGED <<envVars, cfgVars, cloudflareClient, op, t_start, overwrote,
                   name, size, listVars, reapVars, delVars, retrVars, changed,
                   nameVars, genVars>>

\* Presign signs locally; the errors it can return
PresignErrors == {"PresignError"}

\* lines 81-107
StorePresign ==
    /\ pc = "presign"
    /\ \/ Return([NoRet EXCEPT !.Key = key])
       \/ \E e \in PresignErrors : Return([NoRet EXCEPT !.err = e])
    /\ UNCHANGED <<envVars, cfgVars, cloudflareClient, op, key, allocVars,
                   listVars, reapVars, delVars, retrVars, changed, sent,
                   nameVars, genVars>>

\* The caller of a Store that succeeded uploads to the presigned PUT URL
\* (lines 83-100): the object is written at the key Store returned, over the
\* object that is there if there is one.
StoreUpload ==
    /\ pc = "done" /\ op = "Store" /\ ret.err = Nil
    /\ pc' = "uploaded"
    /\ bucket' = PutObject(bucket, ret.Key, clock)
    /\ overwrote' = (ret.Key \in DOMAIN bucket)
    /\ UNCHANGED <<clock, cfgVars, cloudflareClient, op, key, t_start, err,
                   probeErr, name, size, listVars, reapVars, delVars, retrVars, ret,
                   changed, sent, nameVars, genVars>>

\* Store reads neither the page size nor the Cloudflare configuration
InitStore == Init /\ maxKeys = 1 /\ ~cfZone /\ ~shortPages

NextStore ==
    \/ Tick
    \/ ExtUpload
    \/ ExtDelete
    \/ Forget
    \/ StoreCall
    \/ AllocLoop
    \/ StorePresign
    \/ StoreUpload

SpecStore == InitStore /\ [][NextStore]_vars

\* C1: in unique-key allocation, a probe that finds the object is followed by
\* a new candidate and a new probe; the allocation never crashes.
C1_FoundKeyIsRetried == op = "Store" => pc # "panic"

\* C2: a successful Store returns the key whose last probe reported
\* not-found, and while no one else has changed the bucket since Store began
\* that key is not the key of a live object.
C2_StoreKeyIsFree ==
    (op = "Store" /\ pc = "done" /\ ret.err = Nil) =>
        /\ ret.Key = key
        /\ err = "NotFound"
        /\ (~changed => ret.Key \notin DOMAIN bucket)

\* a Store that succeeded after a failed probe, on a bucket that holds objects
C2_Witness ==
    /\ op = "Store" /\ pc = "done" /\ ret.err = Nil
    /\ ~changed /\ probeErr # Nil
    /\ Cardinality(DOMAIN bucket) = KeyBaseLen - 1

\* C4: a request error of the store during Store, the existence probe's
\* included, is what Store returns (a presign error is returned as it is by
\* StorePresign).
C4_ProbeErrorReturned ==
    (op = "Store" /\ pc = "done" /\ probeErr # Nil) => ret.err = probeErr

\* C5: an allocation none of whose probes reported not-found ends with
\* KeyGenerationTimeout, and only after more than the max delay.
C5_EndsWithTimeout ==
    (op = "Store" /\ key # NoKey /\ pc \in {"done", "panic"}
        /\ err # "NotFound") =>
        /\ pc = "done"
        /\ ret.err = errObjectKeyGenerationTookMaxDelay
        /\ clock - t_start > OBJECT_KEY_DELAY_MAX

\* a size from 0 to 5,000,000,000 bytes, both included
SizeInDefaultBounds(sz) ==
    /\ sz.giga >= 0
    /\ sz.giga < 5 \/ (sz.giga = 5 /\ sz.rest = 0)

\* C14: Store called with a valid name returns InvalidSize exactly when the
\* size is negative or above 5,000,000,000 (the default bounds; 0 and
\* 5,000,000,000 pass), and then it has allocated no key and sent no request.
C14_SizeValidation ==
    (op = "Store" /\ objectValidateName(name) = Nil) =>
        IF SizeInDefaultBounds(size)
        THEN /\ ret.err # errObjectSizeInvalid
             /\ key # NoKey /\ sent = {"HeadObject"}
        ELSE /\ pc = "done" /\ ret.err = errObjectSizeInvalid
             /\ ret.Key = NoKey /\ key = NoKey /\ sent = {}

\* Store("a", 5000000001) rejected on a bucket that holds an object
C14_Witness ==
    /\ op = "Store" /\ pc = "done"
    /\ name = <<"a">> /\ size = Bytes(5, 1)
    /\ ret.err = errObjectSizeInvalid
    /\ key = NoKey /\ sent = {}
    /\ bucket # EmptyBucket

\* C11: key allocation reserves nothing.  Store puts no object at the key it
\* returns, so when its caller uploads, the object lands at that key and
\* replaces whatever is live there; what can be live there is an object
\* another party (a client holding the URL of another Store, or any other
\* uploader) put at the key after the probe that reported it free.
C11_OverwriteOnlyByRace ==
    (op = "Store" /\ pc = "uploaded") =>
        /\ ret.Key \in DOMAIN bucket
        /\ bucket[ret.Key] = clock
        /\ overwrote => changed

\* the interleaving C11 says exists: a Store returned a key with no error,
\* another upload made that key the key of a live object, and the upload of
\* the caller of Store replaced that object
C11_Witness ==
    /\ op = "Store" /\ pc = "uploaded" /\ ret.err = Nil
    /\ err = "NotFound"
    /\ overwrote

(***************************************************************************)
(* List (lines 145-180).                                                   *)
(***************************************************************************)
\* the keys of a set in ascending order
RECURSIVE SortKeys(_)
SortKeys(S) ==
    IF S = {} THEN <<>>
    ELSE LET m == CHOOSE x \in S : \A y \in S \ {x} : KeyLess(x, y)
         IN  <<m>> \o SortKeys(S \ {m})

\* ListObjectsV2 on success: at most mk keys in ascending order, those after
\* the key `after` (all of them for the empty string), and whether more follow
ListObjectsV2(bkt, mk, after) ==
    LET all == SortKeys({k \in DOMAIN bkt : KeyLess(after, k)})
        page == SubSeq(all, 1, Min(mk, Len(all)))
    IN  [Contents |-> [i \in 1..Len(page) |->
                          [Key |-> page[i], LastModified |-> bkt[page[i]]]],
         IsTruncated |-> Len(all) > mk]

\* the first m objects of a page, with more to follow
ShortPage(page, m) ==
    [Contents |-> SubSeq(page.Contents, 1, m), IsTruncated |-> TRUE]

\* The pages ListObjectsV2 can return on success.  A store that may return
\* fewer keys than MaxKeys returns, when there are keys to return, the full
\* page or its first keys or none of them, and reports a page it cut short
\* truncated.
ListPages(bkt, mk, after, short) ==
    LET page == ListObjectsV2(bkt, mk, after)
    IN  {page} \cup
        (IF short
         THEN {ShortPage(page, m) : m \in 0..(Len(page.Contents) - 1)}
         ELSE {})

\* the bug of continuing after the first key listed
StartAfterKey_First(objs) == objs[1].Key

\* line 162: StartAfter is the key of the last object listed so far
StartAfterKey(objs) == objs[Len(objs)].Key

\* the bug of taking the objects that expire now for expired
IsExpired_OrNow(lastModified, t) == lastModified + OBJECT_TIME_TO_LIVE =< t

\* line 242: obj.LastModified.Add(OBJECT_TIME_TO_LIVE).Before(now)
IsExpired(lastModified, t) == lastModified + OBJECT_TIME_TO_LIVE < t

\* One request of List and what follows it up to the next request: the
\* request fails and List returns the error (lines 152-154, 164-166), or its
\* contents are appended (lines 169-174) and the loop goes on if the page is
\* truncated and ends if not (line 157).  o is the operation that called
\* List: List itself returns the objects (line 179); Reap returns the error
\* with n = 0 (lines 236-238) or reads the clock (line 240) and starts its
\* loop.
ListPage(o, objs, after) ==
    /\ startAfter' = after
    /\ sent' = sent \cup {"ListObjectsV2"}
    /\ \/ \E e \in RequestErrors :
            /\ Return([NoRet EXCEPT !.err = e])
            /\ objects' = objs /\ out' = out /\ now' = 0
       \/ \E page \in ListPages(bucket, maxKeys, after, shortPages) :
            LET all == objs \o page.Contents
            IN  /\ objects' = all
                /\ out' = page
                /\ IF page.IsTruncated
                   THEN pc' = "list" /\ ret' = NoRet /\ now' = 0
                   ELSE IF o = "List"
                   THEN Return([NoRet EXCEPT !.objects = all]) /\ now' = 0
                   ELSE pc' = "reap" /\ ret' = NoRet /\ now' = clock

\* List up to the end of the first pass of its loop: lines 146-157
ListCall ==
    /\ Begin("List")
    /\ ListPage("List", <<>>, NoKey)
    /\ key' = NoKey /\ n' = 0 /\ idx' = 0 /\ delErr' = Nil
    /\ FreshAlloc /\ FreshDel /\ FreshRetr
    /\ UNCHANGED <<envVars, cfgVars, cloudflareClient, nameVars, genVars>>

\* a further pass of the loop: lines 158-177.  Indexing an empty objects
\* panics.
ListNext ==
    /\ pc = "list"
    /\ IF objects = <<>>
       THEN /\ pc' = "panic"
            /\ UNCHANGED <<listVars, ret, now, sent>>
       ELSE ListPage(op, objects, StartAfterKey(objects))
    /\ UNCHANGED <<envVars, cfgVars, cloudflareClient, op, key, allocVars,
                   n, idx, delErr, delVars, retrVars, changed, nameVars,
                   genVars>>

(***************************************************************************)
(* Delete (lines 182-199) and purgeCache (lines 201-230).                  *)
(***************************************************************************)
\* the errors the Cloudflare client can return
errCloudflareNew == "CloudflareNewError"
errPurgeCache == "PurgeCacheError"

\* lines 205-213: one credential shape.  c is the pair (client, err) so far;
\* a configured shape overwrites both with what its constructor returns.
Construct(c, shape, failing) ==
    IF shape \notin cfCreds THEN c
    ELSE IF shape \in failing
    THEN [client |-> Nil, err |-> errCloudflareNew]
    ELSE [client |-> shape, err |-> Nil]

\* lines 203-213: the three shapes in turn; failing: the shapes whose
\* constructor fails
ConstructAll(failing) ==
    Construct(Construct(Construct([client |-> cloudflareClient, err |-> Nil],
                                  Shapes[1], failing),
                        Shapes[2], failing),
              Shapes[3], failing)

\* the bug of dropping the error of purgeCache
DeleteReturn_NoPurgeError(purgeErr) == Nil

\* lines 193-198: Delete returns what purgeCache returned
DeleteReturn(purgeErr) == purgeErr

\* the bug of going on after a Delete that failed
ReapStops_Never(e) == FALSE

\* lines 243-245: Reap returns when Delete returned an error
ReapStops(e) == e # Nil

\* Delete has returned e to o, the operation that called it: Delete was
\* called directly and e is its result, or Reap called it for objects[i] and
\* returns n and the error (line 244) or counts the object and goes on
\* (line 246)
DeleteReturns(o, e, i) ==
    IF o = "Delete"
    THEN /\ Return([NoRet EXCEPT !.err = e])
         /\ idx' = i
         /\ UNCHANGED <<n, delErr>>
    ELSE IF ReapStops(e)
    THEN /\ Return([NoRet EXCEPT !.err = e, !.n = n])
         /\ delErr' = e
         /\ idx' = i
         /\ UNCHANGED n
    ELSE /\ n' = n + 1
         /\ idx' = i + 1
         /\ pc' = "reap"
         /\ delErr' = IF e # Nil THEN e ELSE delErr
         /\ ret' = NoRet

\* the bug of purging whatever DeleteObject returned
DeleteStops_Never(e) == FALSE

\* lines 189-191: Delete returns the error of DeleteObject and goes no
\* further
DeleteStops(e) == e # Nil

\* lines 185-191: the DeleteObject request for key k (of objects[i], in
\* Reap).  S3 deletes the object if there is one and succeeds whether or not
\* there was one.
DeleteObject(o, k, i) ==
    /\ key' = k
    /\ attempts' = Append(IF o = "Delete" THEN <<>> ELSE attempts, k)
    /\ sent' = sent \cup {"DeleteObject"}
    /\ perr' = Nil
    /\ purgeSent' = FALSE
    /\ \E e \in RequestErrors \cup {Nil} :
           /\ s3Err' = e
           /\ bucket' = IF e = Nil THEN RemoveObject(bucket, k) ELSE bucket
           /\ removed' = IF e = Nil /\ k \in DOMAIN bucket
                         THEN <<[Key |-> k, LastModified |-> bucket[k],
                                 at |-> clock]>>
                         ELSE <<>>
           /\ IF DeleteStops(e)
              THEN DeleteReturns(o, e, i)
              ELSE /\ pc' = "purge"
                   /\ ret' = NoRet
                   /\ idx' = i
                   /\ UNCHANGED <<n, delErr>>

\* o.Delete() on an Object with any key the package hands out
DeleteCall ==
    /\ Begin("Delete")
    /\ \E k \in Keys : DeleteObject("Delete", k, 0)
    /\ FreshAlloc /\ FreshList /\ FreshRetr /\ now' = 0
    /\ UNCHANGED <<clock, cfgVars, cloudflareClient, nameVars, genVars>>

\* purgeCache and the return of Delete: lines 193-198, 201-230.  Without a
\* zone nothing is sent.  With one, the client is built from the configured
\* shapes, and PurgeCache is called on it unless err is set; calling it on a
\* nil client panics.
purgeCache ==
    /\ pc = "purge"
    /\ IF ~cfZone
       THEN /\ perr' = Nil
            /\ DeleteReturns(op, DeleteReturn(Nil), idx)
            /\ UNCHANGED <<cloudflareClient, purgeSent, sent>>
       ELSE \E failing \in SUBSET cfCreds :
              LET c == ConstructAll(failing)
              IN  /\ cloudflareClient' = c.client
                  /\ IF c.err # Nil
                     THEN /\ perr' = c.err
                          /\ DeleteReturns(op, DeleteReturn(c.err), idx)
                          /\ UNCHANGED <<purgeSent, sent>>
                     ELSE IF c.client = Nil
                     THEN /\ pc' = "panic"
                          /\ UNCHANGED <<perr, purgeSent, ret, n, idx, delErr,
                                         sent>>
                     ELSE /\ purgeSent' = TRUE
                          /\ sent' = sent \cup {"PurgeCache"}
                          /\ \E e \in {Nil, errPurgeCache} :
                                 /\ perr' = e
                                 /\ DeleteReturns(op, DeleteReturn(e), idx)
    /\ UNCHANGED <<envVars, cfgVars, op, key, allocVars, listVars, now,
                   s3Err, attempts, removed, retrVars, changed, nameVars,
                   genVars>>

(***************************************************************************)
(* Reap (lines 232-251).                                                   *)
(***************************************************************************)
\* the index of the first expired object at or after i, Len(objs) + 1 if
\* there is none: the passes of the loop of line 241 that call no Delete
RECURSIVE NextExpired(_, _, _)
NextExpired(objs, i, t) ==
    IF i > Len(objs) THEN i
    ELSE IF IsExpired(objs[i].LastModified, t) THEN i
    ELSE NextExpired(objs, i + 1, t)

\* Reap up to the end of the first pass of the loop of List: lines 233-240
ReapCall ==
    /\ Begin("Reap")
    /\ ListPage("Reap", <<>>, NoKey)
    /\ key' = NoKey /\ n' = 0 /\ idx' = 1 /\ delErr' = Nil
    /\ FreshAlloc /\ FreshDel /\ FreshRetr
    /\ UNCHANGED <<envVars, cfgVars, cloudflareClient, nameVars, genVars>>

\* the loop of lines 241-248 up to its next Delete, or to its end (line 250)
ReapStep ==
    /\ pc = "reap"
    /\ LET j == NextExpired(objects, idx, now)
       IN  IF j > Len(objects)
           THEN /\ Return([NoRet EXCEPT !.n = n])
                /\ UNCHANGED <<bucket, key, n, idx, delErr, delVars, sent>>
           ELSE DeleteObject("Reap", objects[j].Key, j)
    /\ UNCHANGED <<clock, cfgVars, cloudflareClient, op, allocVars, listVars,
                   now, retrVars, changed, nameVars, genVars>>

\* List, Delete and Reap, each running from its call to its return with no
\* other party changing the bucket meanwhile; the clock advances at any time
NextReap ==
    \/ Tick
    \/ UploadBetween
    \/ DeleteBetween
    \/ Forget
    \/ ListCall
    \/ ListNext
    \/ DeleteCall
    \/ purgeCache
    \/ ReapCall
    \/ ReapStep

\* the store returns full pages: as many keys as MaxKeys allows
InitReap == Init /\ ~shortPages

SpecReap == InitReap /\ [][NextReap]_vars

\* the keys of a listing, in its order
KeysOf(objs) == [i \in 1..Len(objs) |-> objs[i].Key]

\* the keys of the objects of a listing whose LastModified + TTL is before
\* t, in the order of the listing
RECURSIVE KeysDue(_, _)
KeysDue(objs, t) ==
    IF objs = <<>> THEN <<>>
    ELSE (IF objs[1].LastModified + OBJECT_TIME_TO_LIVE < t
          THEN <<objs[1].Key>> ELSE <<>>) \o KeysDue(Tail(objs), t)

\* C6: on a bucket no one changes during the call, a List that meets no
\* request error returns every stored key exactly once (none on an empty
\* bucket), and each further page is requested with StartAfter equal to the
\* last key listed before it.
C6_ListReturnsEveryKeyOnce ==
    /\ (op = "List" /\ pc = "done" /\ ret.err = Nil /\ ~changed) =>
           /\ KeysOf(ret.objects) = SortKeys(DOMAIN bucket)
           /\ \A i \in 1..Len(ret.objects) :
                  ret.objects[i].LastModified = bucket[ret.objects[i].Key]
    /\ (op = "List" /\ startAfter # NoKey /\ ret.err = Nil) =>
           /\ Len(objects) > Len(out.Contents)
           /\ startAfter = objects[Len(objects) - Len(out.Contents)].Key

\* a List of a full bucket stitched from one page per key
C6_Witness ==
    /\ op = "List" /\ pc = "done" /\ ret.err = Nil /\ ~changed
    /\ maxKeys = 1
    /\ Len(ret.objects) = KeyBaseLen

\* C3: a Reap that succeeds while no one else changes the bucket has deleted
\* the listed objects with last_modified + TTL < now and no other, has left
\* every other object as it was, and returns the number it deleted.
C3_ReapDeletesExactlyExpired ==
    (op = "Reap" /\ pc = "done" /\ ret.err = Nil /\ ~changed) =>
        /\ \A i \in 1..Len(objects) :
               IF objects[i].LastModified + OBJECT_TIME_TO_LIVE < now
               THEN objects[i].Key \notin DOMAIN bucket
               ELSE /\ objects[i].Key \in DOMAIN bucket
                    /\ bucket[objects[i].Key] = objects[i].LastModified
        /\ \A k \in DOMAIN bucket : \E i \in 1..Len(objects) : objects[i].Key = k
        /\ attempts = KeysDue(objects, now)
        /\ ret.n = Len(KeysDue(objects, now))

\* a Reap that met an object not yet expired between two expired ones
C3_Witness ==
    /\ op = "Reap" /\ pc = "done" /\ ret.err = Nil /\ ~changed
    /\ ret.n = 2
    /\ Len(objects) = 3
    /\ objects[2].Key \in DOMAIN bucket

\* C7: Delete returns success exactly when the store deletion succeeded and
\* the purge was skipped for want of a zone or succeeded; when purgeCache
\* fails after the store deletion, Delete returns its error and the object is
\* gone from the store.
C7_DeleteNeedsBothSteps ==
    (op = "Delete" /\ pc = "done") =>
        /\ ret.err = Nil <=>
               (s3Err = Nil /\ (~cfZone \/ (purgeSent /\ perr = Nil)))
        /\ (s3Err = Nil /\ perr # Nil) =>
               /\ ret.err = perr
               /\ (~changed => key \notin DOMAIN bucket)
        /\ s3Err # Nil => ret.err = s3Err

\* a Delete whose purge request failed after the object was deleted
C7_Witness ==
    /\ op = "Delete" /\ pc = "done"
    /\ s3Err = Nil /\ purgeSent /\ perr = errPurgeCache
    /\ ~changed /\ key \notin DOMAIN bucket

\* C8: when a Delete fails during Reap, Reap has returned: with that error,
\* with the number of Deletes that succeeded before it, having requested no
\* deletion after it, and with the objects it deleted still deleted.
C8_ReapStopsAtFailedDelete ==
    (op = "Reap" /\ delErr # Nil) =>
        /\ pc = "done"
        /\ ret.err = delErr
        /\ ret.n = Len(attempts) - 1
        /\ attempts = SubSeq(KeysDue(objects, now), 1, ret.n + 1)
        /\ key = attempts[Len(attempts)]
        /\ (~changed => \A i \in 1..ret.n : attempts[i] \notin DOMAIN bucket)

\* a Reap stopped by its second Delete, with a third expired object left
C8_Witness ==
    /\ op = "Reap" /\ pc = "done" /\ delErr # Nil /\ ~changed
    /\ ret.n = 1
    /\ Len(KeysDue(objects, now)) = 3
    /\ attempts[1] \notin DOMAIN bucket
    /\ KeysDue(objects, now)[3] \in DOMAIN bucket

\* C17: a purge request is sent only after the DeleteObject request of the
\* same Delete, for the same key, has succeeded; a Delete whose DeleteObject
\* failed has returned without sending one; and without a zone nothing is
\* ever sent to the CDN and no client is built.
C17_PurgeOnlyAfterDeletion ==
    op \in {"Delete", "Reap"} =>
        /\ pc = "purge" => s3Err = Nil
        /\ purgeSent =>
               /\ cfZone /\ s3Err = Nil
               /\ attempts # <<>> /\ key = attempts[Len(attempts)]
               /\ ~changed => key \notin DOMAIN bucket
        /\ s3Err # Nil => (pc = "done" /\ ~purgeSent)
        /\ "PurgeCache" \in sent => (cfZone /\ "DeleteObject" \in sent)
        /\ ~cfZone => cloudflareClient = Nil

\* a Reap with a zone whose first Delete purged and whose second Delete
\* failed in the store and purged nothing
C17_Witness ==
    /\ op = "Reap" /\ pc = "done" /\ cfZone
    /\ Len(attempts) = 2
    /\ s3Err # Nil /\ ~purgeSent
    /\ "PurgeCache" \in sent
    /\ attempts[1] \notin DOMAIN bucket /\ attempts[2] \in DOMAIN bucket

\* C20: with a zone configured, the purge request goes through a client
\* built from a configured credential shape, and purgeCache never calls
\* PurgeCache on a nil client.
C20_PurgeThroughBuiltClient ==
    (op \in {"Delete", "Reap"} /\ cfZone) =>
        /\ pc # "panic"
        /\ purgeSent => cloudflareClient \in cfCreds

(***************************************************************************)
(* List and Reap while other parties upload and delete at any moment, on    *)
(* a store of either kind (full pages, or pages that may be cut short).    *)
(***************************************************************************)
\* purgeCache sends nothing without a zone
InitReapRace == Init /\ ~cfZone

NextReapRace ==
    \/ Tick
    \/ ExtUpload
    \/ ExtDelete
    \/ Forget
    \/ ListCall
    \/ ListNext
    \/ ReapCall
    \/ ReapStep
    \/ purgeCache

SpecReapRace == InitReapRace /\ [][NextReapRace]_vars

\* C18: the object a Delete of Reap removes from the store is expired at the
\* moment it is removed, whatever other parties upload meanwhile: an object
\* uploaded again after the listing is not removed.
C18_ReapRemovesOnlyExpired ==
    (op = "Reap" /\ removed # <<>>) =>
        removed[1].LastModified + OBJECT_TIME_TO_LIVE < removed[1].at

\* C19: the keys List has accumulated are in strictly ascending order (none
\* twice); whenever List needs another page it has a cursor, the last key
\* it accumulated, and that cursor is beyond the cursor of the request before
\* (so the requests come to an end); a truncated page with no contents does
\* not make it fail.
C19_ListCursorAdvances ==
    op = "List" =>
        /\ pc # "panic"
        /\ \A j \in 1..(Len(objects) - 1) :
               KeyLess(objects[j].Key, objects[j + 1].Key)
        /\ pc = "list" =>
               /\ objects # <<>>
               /\ KeyLess(startAfter, objects[Len(objects)].Key)

(***************************************************************************)
(* Retrieve (lines 110-143).  The name it recovers from Content-Disposition *)
(* (lines 121-124) is followed separately, in the name round trip below.   *)
(***************************************************************************)
\* the keys Retrieve is called with: every string of the characters of the
\* alphabet and of one character foreign to it, from the empty string to one
\* character more than the longest valid key
RetrieveKeys == StringsUpTo(BaseChars \cup {"x"}, OBJECT_KEY_LENGTH * 2 + 1)

\* the bug of signing for the whole time to live
PresignDuration_WholeTTL(lastModified, t) == OBJECT_TIME_TO_LIVE

\* line 131: object.LastModified.Add(OBJECT_TIME_TO_LIVE).Sub(time.Now())
PresignDuration(lastModified, t) == lastModified + OBJECT_TIME_TO_LIVE - t

\* lines 111-129: the key is validated, HeadObject returns the metadata and
\* the GET request is created; the request carries the time of its creation,
\* which is the time its URL is signed with
RetrieveCall ==
    /\ Begin("Retrieve")
    /\ \E k \in RetrieveKeys :
        /\ key' = k
        /\ IF objectValidateKey(k) # Nil
           THEN /\ Return([NoRet EXCEPT !.err = objectValidateKey(k)])
                /\ FreshRetr
                /\ UNCHANGED sent
           ELSE \E e \in HeadObject(bucket, k) :
                /\ sent' = sent \cup {"HeadObject"}
                /\ IF e # Nil
                   THEN /\ Return([NoRet EXCEPT !.err = e])
                        /\ FreshRetr
                   ELSE /\ head' = bucket[k]
                        /\ reqTime' = clock
                        /\ pc' = "presignGet"
                        /\ ret' = NoRet
    /\ FreshAlloc /\ FreshList /\ FreshReap /\ FreshDel
    /\ UNCHANGED <<envVars, cfgVars, cloudflareClient, nameVars, genVars>>

\* lines 131-142: the clock is read, the URL is presigned for the remaining
\* time and expires that long after the time of the request
RetrievePresign ==
    /\ pc = "presignGet"
    /\ now' = clock
    /\ \/ Return([NoRet EXCEPT
                    !.Key = key,
                    !.ExpirationSeconds = head + OBJECT_TIME_TO_LIVE,
                    !.urlExpires = reqTime + PresignDuration(head, clock)])
       \/ \E e \in PresignErrors : Return([NoRet EXCEPT !.err = e])
    /\ UNCHANGED <<envVars, cfgVars, cloudflareClient, op, key, allocVars,
                   listVars, n, idx, delErr, delVars, retrVars, changed, sent,
                   nameVars, genVars>>

\* Retrieve reads neither the page size nor the Cloudflare configuration
InitRetrieve == Init /\ maxKeys = 1 /\ ~cfZone /\ ~shortPages

NextRetrieve ==
    \/ Tick
    \/ ExtUpload
    \/ ExtDelete
    \/ Forget
    \/ RetrieveCall
    \/ RetrievePresign

SpecRetrieve == InitRetrieve /\ [][NextRetrieve]_vars

KeyWellFormed(k) ==
    /\ Len(k) \in OBJECT_KEY_LENGTH..(OBJECT_KEY_LENGTH * 2)
    /\ {k[i] : i \in 1..Len(k)} \subseteq BaseChars

\* C13: Retrieve accepts its key exactly when the length of the key is from
\* keyLength to 2*keyLength, both included, and all its characters are of the
\* alphabet; with any other key it returns InvalidKey and has sent no request,
\* and with such a key it has sent its HeadObject.
C13_KeyValidation ==
    op = "Retrieve" =>
        IF KeyWellFormed(key)
        THEN ret.err # errObjectKeyInvalid /\ sent = {"HeadObject"}
        ELSE pc = "done" /\ ret.err = errObjectKeyInvalid /\ sent = {}

\* a key of the alphabet one character too long, rejected before any request,
\* on a bucket that holds an object
C13_Witness ==
    /\ op = "Retrieve" /\ pc = "done"
    /\ Len(key) = OBJECT_KEY_LENGTH * 2 + 1
    /\ \A i \in 1..Len(key) : key[i] \in BaseChars
    /\ ret.err = errObjectKeyInvalid /\ sent = {}
    /\ bucket # EmptyBucket

(***************************************************************************)
(* The name of an object, from Store to Retrieve.                          *)
(***************************************************************************)
\* the characters of the names Store is called with
NameChars == {"a", "0", "2", "+", " ", "%", "\""}

HexDigits == {"0", "1", "2", "3", "4", "5", "6", "7", "8", "9",
              "a", "b", "c", "d", "e", "f", "A", "B", "C", "D", "E", "F"}

\* the character of the byte with hex digits h1 h2; a byte that is no
\* character of the model is written \xh1h2
FromHex(h1, h2) ==
    CASE <<h1, h2>> = <<"2", "0">> -> " "
      [] <<h1, h2>> = <<"2", "2">> -> "\""
      [] <<h1, h2>> = <<"2", "5">> -> "%"
      [] <<h1, h2>> \in {<<"2", "B">>, <<"2", "b">>} -> "+"
      [] OTHER -> "\\x" \o h1 \o h2

\* url.QueryUnescape fails on a % that two hex digits do not follow
BadEscape(s) ==
    \E i \in 1..Len(s) :
        /\ s[i] = "%"
        /\ \/ i + 2 > Len(s)
           \/ s[i + 1] \notin HexDigits
           \/ s[i + 2] \notin HexDigits

RECURSIVE Unescaped(_)
Unescaped(s) ==
    IF s = <<>> THEN <<>>
    ELSE IF s[1] = "%"
    THEN <<FromHex(s[2], s[3])>> \o Unescaped(SubSeq(s, 4, Len(s)))
    ELSE IF s[1] = "+" THEN <<" ">> \o Unescaped(Tail(s))
    ELSE <<s[1]>> \o Unescaped(Tail(s))

\* url.QueryUnescape
QueryUnescape(s) ==
    IF BadEscape(s) THEN [err |-> "invalid URL escape", Name |-> <<>>]
    ELSE [err |-> Nil, Name |-> Unescaped(s)]

\* strings.Split(s, sep) for a one-character sep
RECURSIVE Split(_, _)
Split(s, sep) ==
    IF \E i \in 1..Len(s) : s[i] = sep
    THEN LET i == CHOOSE j \in 1..Len(s) :
                      s[j] = sep /\ \A l \in 1..(j - 1) : s[l] # sep
         IN  <<SubSeq(s, 1, i - 1)>> \o Split(SubSeq(s, i + 1, Len(s)), sep)
    ELSE <<s>>

\* line 81: fmt.Sprintf(`attachment; filename="%s"`, name)
ContentDisposition(nm) ==
    <<"a", "t", "t", "a", "c", "h", "m", "e", "n", "t", ";", " ",
      "f", "i", "l", "e", "n", "a", "m", "e", "=", "\"">> \o nm \o <<"\"">>

\* Store, lines 72-81 and 101-102: the name is escaped and validated and the
\* header is built from the escaped name
NameStore ==
    /\ nmPc = "called"
    /\ IF objectValidateName(nmIn) # Nil
       THEN nmPc' = "rejected" /\ UNCHANGED nmHeader
       ELSE nmPc' = "stored" /\ nmHeader' = ContentDisposition(EscapeName(nmIn))
    /\ UNCHANGED <<envVars, cfgVars, cloudflareClient, pc, op, key, allocVars,
                   listVars, reapVars, delVars, retrVars, ret, changed, sent,
                   nmIn, nmStored, nmOut, genVars>>

\* the client uploads with the headers Store returned
NameUpload ==
    /\ nmPc = "stored"
    /\ nmPc' = "uploaded"
    /\ nmStored' = nmHeader
    /\ UNCHANGED <<envVars, cfgVars, cloudflareClient, pc, op, key, allocVars,
                   listVars, reapVars, delVars, retrVars, ret, changed, sent,
                   nmIn, nmHeader, nmOut, genVars>>

\* Retrieve, lines 121-124 and 138: the name is what the quotes enclose,
\* unescaped; indexing panics if there is no quote
NameRetrieve ==
    /\ nmPc = "uploaded"
    /\ IF Len(Split(nmStored, "\"")) < 2
       THEN nmPc' = "panic" /\ UNCHANGED nmOut
       ELSE /\ nmPc' = "retrieved"
            /\ nmOut' = QueryUnescape(Split(nmStored, "\"")[2])
    /\ UNCHANGED <<envVars, cfgVars, cloudflareClient, pc, op, key, allocVars,
                   listVars, reapVars, delVars, retrVars, ret, changed, sent,
                   nmIn, nmHeader, nmStored, genVars>>

\* Store is called with any name of the model
InitName ==
    /\ InitPackage /\ maxKeys = 1 /\ ~cfZone /\ ~shortPages /\ GenOff
    /\ nmPc = "called"
    /\ nmIn \in StringsUpTo(NameChars, MaxNameLen)
    /\ nmHeader = <<>> /\ nmStored = <<>> /\ nmOut = NoName

NextName ==
    \/ NameStore
    \/ NameUpload
    \/ NameRetrieve

SpecName == InitName /\ [][NextName]_vars

\* C9: Retrieve returns the name Store was called with, for every name Store
\* accepts.
C9_NameRoundTrip ==
    /\ nmPc # "panic"
    /\ nmPc = "retrieved" => (nmOut.err = Nil /\ nmOut.Name = nmIn)

\* the round trip of a name made of '+', space, '%' and '"'
C9_Witness ==
    /\ nmPc = "retrieved"
    /\ nmIn = <<"+", " ", "%", "\"">>
    /\ nmOut.Name = nmIn

(***************************************************************************)
(* StringGenerator.Generate (random.go, lines 37-57), step by step.        *)
(***************************************************************************)
\* the alphabets have from 1 to MaxBaseLen symbols
MaxBaseLen == 5
\* Generate is called with a length from 0 to MaxGenLen
MaxGenLen == 3

\* The values cache & indexMask can have after cache was shifted t times
\* since it was drawn.  A draw is any value of Int63Bits bits; the model
\* chooses each group of bits when the loop reads it.  The bits beyond
\* Int63Bits are 0.
Candidates(t, bits) ==
    LET left == Int63Bits - t * bits
    IN  0..(Pow2(IF left < 0 THEN 0 ELSE Min(bits, left)) - 1)

\* the bug of drawing again one pass too late
NeedsRefill_Late(r) == r < 0

\* line 42: remain == 0
NeedsRefill(r) == r = 0

\* the bug of comparing the wrong way round
Accepts_Above(index, baseLength) == index > baseLength

\* line 47: index < rsg.baseLength
Accepts(index, baseLength) == index < baseLength

\* lines 38-41: the builder is created and the loop initialised: i is
\* length - 1, cache is drawn, remain is indexMax
GenCall ==
    /\ genPc = "called"
    /\ genPc' = "loop"
    /\ loopI' = length - 1
    /\ shifted' = 0
    /\ remain' = rsg.indexMax
    /\ builder' = <<>>
    /\ UNCHANGED <<envVars, cfgVars, cloudflareClient, pc, op, key, allocVars,
                   listVars, reapVars, delVars, retrVars, ret, changed, sent,
                   nameVars, rsg, length, refilled>>

\* One pass of the loop (lines 41-54) with the candidate index: cache is
\* drawn again if remain is 0 (lines 42-45), the candidate is read (line 47),
\* and if it is accepted base[index] is written and i counted down (lines
\* 48-49); cache is shifted and remain counted down (lines 52-53).  Indexing
\* base beyond its length panics.
GenPass(index, accept) ==
    /\ genPc = "loop"
    /\ loopI >= 0
    /\ LET refill == NeedsRefill(remain)
           t == IF refill THEN 0 ELSE shifted
           r == IF refill THEN rsg.indexMax ELSE remain
       IN  /\ index \in Candidates(t, rsg.indexBits)
           /\ Accepts(index, rsg.baseLength) = accept
           /\ refilled' = (refilled \/ refill)
           /\ shifted' = t + 1
           /\ remain' = r - 1
           /\ IF ~accept
              THEN UNCHANGED <<genPc, builder, loopI>>
              ELSE IF index < Len(rsg.base)
              THEN /\ builder' = Append(builder, rsg.base[index + 1])
                   /\ loopI' = loopI - 1
                   /\ UNCHANGED genPc
              ELSE /\ genPc' = "panic"
                   /\ UNCHANGED <<builder, loopI>>
    /\ UNCHANGED <<envVars, cfgVars, cloudflareClient, pc, op, key, allocVars,
                   listVars, reapVars, delVars, retrVars, ret, changed, sent,
                   nameVars, rsg, length>>

\* a pass whose candidate is accepted
GenAccept == \E index \in 0..rsg.indexMask : GenPass(index, TRUE)

\* a pass whose candidate is rejected
GenReject == \E index \in 0..rsg.indexMask : GenPass(index, FALSE)

\* lines 41 and 56: the loop ends when i < 0 and the string is returned
GenReturn ==
    /\ genPc = "loop"
    /\ loopI < 0
    /\ genPc' = "done"
    /\ UNCHANGED <<envVars, cfgVars, cloudflareClient, pc, op, key, allocVars,
                   listVars, reapVars, delVars, retrVars, ret, changed, sent,
                   nameVars, rsg, length, loopI, shifted, remain, builder,
                   refilled>>

\* Generate is called with any length of the model on a generator made for
\* any alphabet of the model
InitGenerate ==
    /\ InitPackage /\ maxKeys = 1 /\ ~cfZone /\ ~shortPages /\ NameOff
    /\ \E baseLength \in 1..MaxBaseLen :
           rsg = NewStringGenerator(SubSeq(FullBase, 1, baseLength))
    /\ genPc = "called"
    /\ length \in 0..MaxGenLen
    /\ loopI = 0 /\ shifted = 0 /\ remain = 0
    /\ builder = <<>> /\ refilled = FALSE

NextGenerate ==
    \/ GenCall
    \/ GenAccept
    \/ GenReject
    \/ GenReturn

SpecGenerate == InitGenerate /\ [][NextGenerate]_vars

\* The random source is fair: it does not return rejected candidates only,
\* for ever.  The calls and returns are steps of the one goroutine.
SpecGenerateFair ==
    /\ SpecGenerate
    /\ WF_vars(GenCall)
    /\ WF_vars(GenAccept)
    /\ WF_vars(GenReturn)

\* the least b >= 1 with 2^b >= N
LeastBits(N) == CHOOSE b \in 1..Int63Bits :
    Pow2(b) >= N /\ (b = 1 \/ Pow2(b - 1) < N)

\* C15: Generate returns a string of exactly length characters, each of the
\* alphabet, and reads at most floor(63/b) candidates from one draw, b being
\* the least number of bits with 2^b >= N; it never indexes the alphabet at
\* or beyond N.
C15_GenerateInAlphabet ==
    genPc # "off" =>
        /\ genPc # "panic"
        /\ \A j \in 1..Len(builder) :
               \E x \in 1..Len(rsg.base) : builder[j] = rsg.base[x]
        /\ Len(builder) =< length
        /\ genPc = "done" => Len(builder) = length
        /\ shifted =< Int63Bits \div LeastBits(Len(rsg.base))

\* a string of three symbols returned for an alphabet of three, after a draw
\* was used up by rejected candidates and cache drawn again
C15_Witness ==
    /\ genPc = "done" /\ rsg.baseLength = 3 /\ length = 3
    /\ refilled
    /\ builder = <<"3", "1", "2">>

\* C16: under a fair random source Generate returns, whatever the alphabet
\* and the length; it does not panic; and with length 0 what it returns is
\* the empty string.
C16_GenerateTerminates ==
    /\ <>(genPc = "done")
    /\ [](genPc = "done" /\ length = 0 => builder = <<>>)
    /\ [](genPc # "panic")

\* a return after a draw used up by rejected candidates, for an alphabet of
\* one symbol (every second candidate value is rejected)
C16_Witness ==
    /\ genPc = "done" /\ rsg.baseLength = 1 /\ length = MaxGenLen
    /\ refilled
    /\ Len(builder) = length

\* the escaped name a Content-Disposition header carries between its quotes
FilenameOf(header) == Split(header, "\"")[2]

\* the concatenation of the renderings of the characters of a name
RECURSIVE Rendered(_, _)
Rendered(nm, R) ==
    IF nm = <<>> THEN <<>> ELSE R[nm[1]] \o Rendered(Tail(nm), R)

\* the rendering C12 claims: a literal '+' as %20
PlusAsSpace == [c \in NameChars |->
    CASE c = "+" -> <<"%", "2", "0">>
      [] c = " " -> <<"%", "2", "0">>
      [] c = "%" -> <<"%", "2", "5">>
      [] c = "\"" -> <<"%", "2", "2">>
      [] OTHER -> <<c>>]

\* the rendering of the code: a literal '+' as %2B, a space as %20
PlusAsPlus == [c \in NameChars |->
    CASE c = "+" -> <<"%", "2", "B">>
      [] c = " " -> <<"%", "2", "0">>
      [] c = "%" -> <<"%", "2", "5">>
      [] c = "\"" -> <<"%", "2", "2">>
      [] OTHER -> <<c>>]

\* a literal '+' is among the characters of the name
HasPlus(nm) == \E i \in 1..Len(nm) : nm[i] = "+"

\* C12 as claimed: the escaped name in the header Store returns for a name
\* with a literal '+' has no '+' and renders each literal '+' as %20.
C12_PlusRenderedAsPercent20 ==
    (nmPc = "stored" /\ HasPlus(nmIn)) =>
        /\ ~HasPlus(FilenameOf(nmHeader))
        /\ FilenameOf(nmHeader) = Rendered(nmIn, PlusAsSpace)

\* C12: the escaped name in the header Store returns for a name with a
\* literal '+' has no '+' and renders each literal '+' as %2B; %20 is the
\* rendering of a space.
C12_PlusRenderedAsPercent2B ==
    (nmPc = "stored" /\ HasPlus(nmIn)) =>
        /\ ~HasPlus(FilenameOf(nmHeader))
        /\ FilenameOf(nmHeader) = Rendered(nmIn, PlusAsPlus)

\* the header of a name with literal '+' and a space
C12_Witness ==
    /\ nmPc = "stored"
    /\ nmIn = <<"a", "+", " ", "+">>
    /\ FilenameOf(nmHeader) =
           <<"a", "%", "2", "B", "%", "2", "0", "%", "2", "B">>

(***************************************************************************)
(* The package as a whole.                                                 *)
(***************************************************************************)
Next ==
    \/ Tick
    \/ ExtUpload
    \/ ExtDelete
    \/ Forget
    \/ StoreCall
    \/ AllocLoop
    \/ StorePresign
    \/ StoreUpload
    \/ RetrieveCall
    \/ RetrievePresign
    \/ ListCall
    \/ ListNext
    \/ DeleteCall
    \/ purgeCache
    \/ ReapCall
    \/ ReapStep

Spec == Init /\ [][Next]_vars

====
